---- MODULE Spec2Model ----
(***************************************************************************)
(* A model of the Deep Dream core of DeepAPI                               *)
(* (server/deep_api/algorithms/deep_dream.py):                             *)
(*   - DeepGoogLeNet: the backbone with forward hooks that capture the     *)
(*     outputs of the layers of interest                                   *)
(*   - DeepDream.deep_dream_loss, dream_inception, create_inceptions and   *)
(*     __call__: the loss, the single-scale optimizer, the pyramid builder *)
(*     and the multi-scale loop.                                           *)
(* Images are modelled by their size and by the provenance of their        *)
(* pixels; real numbers are exact rationals <<numerator, denominator>>.    *)
(***************************************************************************)
EXTENDS Integers, Sequences, FiniteSets, TLC

(***************************************************************************)
(* Bounds of the model                                                     *)
(***************************************************************************)
MaxPasses == 2        \* forward passes per backbone instance (SpecBackbone)
MaxCalls == 2         \* deep_dream_loss calls per thread (SpecThreads)
MaxInceptions == 3    \* largest n_inceptions passed to __call__
MaxEpochs == 2        \* largest epochs passed to __call__

(***************************************************************************)
(* Program constants                                                       *)
(***************************************************************************)
SIZE == 512

\* Rationals <<n, d>> with d > 0, kept in lowest terms
Abs(x) == IF x < 0 THEN -x ELSE x
RECURSIVE Gcd(_, _)
Gcd(x, y) == IF y = 0 THEN x ELSE Gcd(y, x % y)
Reduce(a) ==
    LET g == Gcd(Abs(a[1]), a[2]) IN <<a[1] \div g, a[2] \div g>>
RLess(a, b) == a[1] * b[2] < b[1] * a[2]
REq(a, b) == a[1] * b[2] = b[1] * a[2]
RAdd(a, b) == Reduce(<<a[1] * b[2] + b[1] * a[2], a[2] * b[2]>>)
RMul(a, b) == Reduce(<<a[1] * b[1], a[2] * b[2]>>)
RDiv(a, k) == Reduce(<<a[1], a[2] * k>>)

(***************************************************************************)
(* The backbone: DeepGoogLeNet                                             *)
(***************************************************************************)
\* The addressable sub-layers (named_children) the model keeps, in the order
\* the forward pass runs them.
Layers == <<"inception3a", "inception4a">>
LayerSet == {Layers[k] : k \in 1..Len(Layers)}
\* Names a caller may pass as layers of interest; "Mixed_5b" (a default of
\* __call__) is no child of GoogLeNet.
LoiNames == LayerSet \cup {"Mixed_5b"}
\* The loi lists tried: duplicate-free lists of at most two names.
LoiChoices ==
    {<<>>} \cup {<<a>> : a \in LoiNames}
           \cup {p \in LoiNames \X LoiNames : p[1] # p[2]}

Instances == {"A", "B"}
Threads == {"t1", "t2"}

VARIABLES
    \* ---- class DeepGoogLeNet
    hooks,        \* the class attribute `hooks`: one list shared by all instances
    attached,     \* the hook handles still registered on a layer
    inst,         \* per instance slot: "unbuilt", "ready" or "failed"
    loi,          \* per instance: the loi its constructor was given
    err,          \* per instance: the exception its constructor raised
    features,     \* per instance: the attribute `features`
    passes,       \* per instance: forward passes made so far
    removeCalled, \* per instance: remove() was called on it
    \* ---- threads calling deep_dream_loss on instance "A"
    mode,         \* "serialized": callers take turns; "concurrent": they do not
    tpc,          \* per thread: "idle", "forward", "read", "done"
    tlayer,       \* per thread: the next layer its forward pass runs
    tcalls,       \* per thread: deep_dream_loss calls started
    tread,        \* per thread: the features its last loss was computed from
    \* ---- one DeepDream.__call__
    pc,           \* position in __call__ / dream_inception
    args,         \* the arguments of __call__
    inceptions,   \* the pyramid
    w,            \* the loop index of __call__
    dream,        \* the running dream
    scale,        \* the blended image
    target,       \* dream_inception: the target tensor (its size, one value)
    learning_rate,\* dream_inception: its local learning_rate
    dargs,        \* dream_inception: the arguments of the running call
    epoch,        \* dream_inception: iterations done
    calls,        \* the dream_inception calls made so far
    result        \* what __call__ returned

bvars == <<hooks, attached, inst, loi, err, features, passes, removeCalled>>
tvars == <<mode, tpc, tlayer, tcalls, tread>>
rvars == <<pc, args, inceptions, w, dream, scale, target, learning_rate,
           dargs, epoch, calls, result>>
vars == <<bvars, tvars, rvars>>

NoImage == [width |-> 0, height |-> 0, kind |-> "none", depth |-> 0, carried |-> FALSE]
NoArgs == [epochs |-> 0, learning_rate |-> <<0, 1>>, n_inceptions |-> 0,
           scale_factor |-> <<0, 1>>, blend_factor |-> <<0, 1>>, blur_radius |-> 0,
           image |-> NoImage]
NoDArgs == [image |-> NoImage, epochs |-> 0, learning_rate |-> <<0, 1>>,
            learning_weight |-> 0]

\* ---- DeepGoogLeNet.__init__
Handle(i, name) == [owner |-> i, layer |-> name]
\* A variant of the lookup that never misses a name.
FirstUnknown_none(l) == Len(l) + 1

\* The position of the first name of l that is no child of the model
\* (Len(l) + 1 when every name is one): where line 83 raises KeyError.
FirstUnknown(l) ==
    IF \E k \in 1..Len(l) : l[k] \notin LayerSet
    THEN CHOOSE k \in 1..Len(l) :
            /\ l[k] \notin LayerSet
            /\ \A j \in 1..(k - 1) : l[j] \in LayerSet
    ELSE Len(l) + 1
\* The handles lines 82-85 register before the loop ends or raises.
Registered(i, l) == [k \in 1..(FirstUnknown(l) - 1) |-> Handle(i, l[k])]

SeqRange(s) == {s[k] : k \in 1..Len(s)}

\* The list self.hooks names when instance i appends to it or iterates it:
\* the class attribute, the same list for every instance.
HooksOf(i, classHooks) == classHooks

Construct(i, l, weights_ok) ==
    /\ inst[i] = "unbuilt"
    /\ IF ~weights_ok
       THEN /\ inst' = [inst EXCEPT ![i] = "failed"]
            /\ err' = [err EXCEPT ![i] = "LoadError"]
            /\ UNCHANGED <<hooks, attached>>
       ELSE /\ hooks' = HooksOf(i, hooks) \o Registered(i, l)
            /\ attached' = attached \cup SeqRange(Registered(i, l))
            /\ IF FirstUnknown(l) <= Len(l)
               THEN /\ inst' = [inst EXCEPT ![i] = "failed"]
                    /\ err' = [err EXCEPT ![i] = "KeyError"]
               ELSE /\ inst' = [inst EXCEPT ![i] = "ready"]
                    /\ UNCHANGED err
    /\ loi' = [loi EXCEPT ![i] = l]
    /\ UNCHANGED <<features, passes, removeCalled>>

\* ---- DeepGoogLeNet.feature_hook
\* Layer number k of instance i has run during pass p: every hook still
\* registered on it appends the layer's output to f.
feature_hook(f, i, k, p, att) ==
    IF Handle(i, Layers[k]) \in att
    THEN Append(f, [layer |-> Layers[k], pass |-> p])
    ELSE f

\* ---- DeepGoogLeNet.forward
\* A variant of forward that keeps the list of the earlier passes.
forward_keep(old) == old

\* Line 94: the attribute is rebound to a fresh empty list.
forward_reset(old) == <<>>

RECURSIVE RunLayers(_, _, _, _, _)
RunLayers(f, i, k, p, att) ==
    IF k > Len(Layers) THEN f
    ELSE RunLayers(feature_hook(f, i, k, p, att), i, k + 1, p, att)

\* A whole forward pass of instance i, identified as pass p.
forward(f, i, p, att) == RunLayers(forward_reset(f), i, 1, p, att)

Forward(i) ==
    /\ inst[i] = "ready"
    /\ passes[i] < MaxPasses
    /\ passes' = [passes EXCEPT ![i] = @ + 1]
    /\ features' = [features EXCEPT
                      ![i] = forward(@, i, [by |-> "main", n |-> passes[i] + 1], attached)]
    /\ UNCHANGED <<hooks, attached, inst, loi, err, removeCalled>>

\* ---- DeepGoogLeNet.remove
Remove(i) ==
    /\ inst[i] = "ready"
    /\ attached' = attached \ SeqRange(HooksOf(i, hooks))
    /\ removeCalled' = [removeCalled EXCEPT ![i] = TRUE]
    /\ UNCHANGED <<hooks, inst, loi, err, features, passes>>

InitBackboneVars ==
    /\ hooks = <<>>
    /\ attached = {}
    /\ inst = [i \in Instances |-> "unbuilt"]
    /\ loi = [i \in Instances |-> <<>>]
    /\ err = [i \in Instances |-> "none"]
    /\ features = [i \in Instances |-> <<>>]
    /\ passes = [i \in Instances |-> 0]
    /\ removeCalled = [i \in Instances |-> FALSE]

IdleThreads ==
    /\ mode = "serialized"
    /\ tpc = [t \in Threads |-> "idle"]
    /\ tlayer = [t \in Threads |-> 1]
    /\ tcalls = [t \in Threads |-> 0]
    /\ tread = [t \in Threads |-> <<>>]

IdleRun ==
    /\ pc = "idle"
    /\ args = NoArgs
    /\ inceptions = <<>>
    /\ w = 0
    /\ dream = NoImage
    /\ scale = NoImage
    /\ target = [width |-> 0, height |-> 0, value |-> <<0, 1>>, of |-> NoImage]
    /\ learning_rate = <<0, 1>>
    /\ dargs = NoDArgs
    /\ epoch = 0
    /\ calls = <<>>
    /\ result = NoImage

InitBackbone == InitBackboneVars /\ IdleThreads /\ IdleRun

NextBackbone ==
    \/ \E i \in Instances, l \in LoiChoices, ok \in BOOLEAN :
          Construct(i, l, ok) /\ UNCHANGED <<tvars, rvars>>
    \/ \E i \in Instances : Forward(i) /\ UNCHANGED <<tvars, rvars>>
    \/ \E i \in Instances : Remove(i) /\ UNCHANGED <<tvars, rvars>>

SpecBackbone == InitBackbone /\ [][NextBackbone]_vars

(***************************************************************************)
(* Threads calling DeepDream.deep_dream_loss on the one backbone "A"        *)
(***************************************************************************)
Busy(t) == tpc[t] \in {"forward", "read"}
PassOf(t) == [by |-> t, n |-> tcalls[t]]

\* Line 116 up to line 94: the call enters forward, which rebinds features.
LossCall(t) ==
    /\ tpc[t] = "idle"
    /\ tcalls[t] < MaxCalls
    /\ mode = "serialized" => \A u \in Threads \ {t} : ~Busy(u)
    /\ tpc' = [tpc EXCEPT ![t] = "forward"]
    /\ tlayer' = [tlayer EXCEPT ![t] = 1]
    /\ tcalls' = [tcalls EXCEPT ![t] = @ + 1]
    /\ features' = [features EXCEPT !["A"] = forward_reset(@)]
    /\ UNCHANGED <<mode, tread>>
    /\ UNCHANGED <<hooks, attached, inst, loi, err, passes, removeCalled>>

\* Line 95: the next layer of the pass of t runs and its hooks fire.
LayerStep(t) ==
    /\ tpc[t] = "forward"
    /\ features' = [features EXCEPT
                      !["A"] = feature_hook(@, "A", tlayer[t], PassOf(t), attached)]
    /\ tlayer' = [tlayer EXCEPT ![t] = @ + 1]
    /\ tpc' = [tpc EXCEPT ![t] = IF tlayer[t] = Len(Layers) THEN "read" ELSE "forward"]
    /\ UNCHANGED <<mode, tcalls, tread>>
    /\ UNCHANGED <<hooks, attached, inst, loi, err, passes, removeCalled>>

\* Lines 119-121: the loss is computed from model.features.
LossRead(t) ==
    /\ tpc[t] = "read"
    /\ tread' = [tread EXCEPT ![t] = features["A"]]
    /\ tpc' = [tpc EXCEPT ![t] = "idle"]
    /\ UNCHANGED <<mode, tlayer, tcalls>>
    /\ UNCHANGED bvars

\* The state after DeepDream.__init__ built the backbone "A" with layers of
\* interest l, every name of l a child of the model.
EngineBuilt(l) ==
    /\ hooks = Registered("A", l)
    /\ attached = SeqRange(Registered("A", l))
    /\ inst = [i \in Instances |-> IF i = "A" THEN "ready" ELSE "unbuilt"]
    /\ loi = [i \in Instances |-> IF i = "A" THEN l ELSE <<>>]
    /\ err = [i \in Instances |-> "none"]
    /\ features = [i \in Instances |-> <<>>]
    /\ passes = [i \in Instances |-> 0]
    /\ removeCalled = [i \in Instances |-> FALSE]

ValidLoi == {l \in LoiChoices : FirstUnknown(l) > Len(l)}

InitThreads ==
    /\ \E l \in ValidLoi : EngineBuilt(l)
    /\ mode \in {"serialized", "concurrent"}
    /\ tpc = [t \in Threads |-> "idle"]
    /\ tlayer = [t \in Threads |-> 1]
    /\ tcalls = [t \in Threads |-> 0]
    /\ tread = [t \in Threads |-> <<>>]
    /\ IdleRun

NextThreads ==
    \/ \E t \in Threads : LossCall(t) /\ UNCHANGED rvars
    \/ \E t \in Threads : LayerStep(t) /\ UNCHANGED rvars
    \/ \E t \in Threads : LossRead(t) /\ UNCHANGED rvars

SpecThreads == InitThreads /\ [][NextThreads]_vars

(***************************************************************************)
(* Image transforms                                                        *)
(***************************************************************************)
\* Channel 0 of MEAN and STD (lines 13-14).
MEAN == <<485, 1000>>
STD == <<229, 1000>>
\* The bounds of clip for that channel: -mean/std and (1 - mean)/std.
ClipLow == Reduce(<<-(MEAN[1] * STD[2]), STD[1] * MEAN[2]>>)
ClipHigh == Reduce(<<(MEAN[2] - MEAN[1]) * STD[2], STD[1] * MEAN[2]>>)

\* T.Normalize of a raw pixel value p in [0, 1].
Normalize(p) ==
    Reduce(<<(p[1] * MEAN[2] - MEAN[1] * p[2]) * STD[2], STD[1] * p[2] * MEAN[2]>>)

\* preprocess: the image is resized to SIZE x SIZE whatever its size; v is
\* the normalized value of the one pixel the model follows.
preprocess(image, v) ==
    [width |-> SIZE, height |-> SIZE, value |-> v, of |-> image]

\* postprocess: a PIL image of the tensor's size.
postprocess(tensor) ==
    [width |-> tensor.width, height |-> tensor.height, kind |-> "dream",
     depth |-> tensor.of.depth, carried |-> tensor.of.carried]

clip(v) ==
    IF RLess(v, ClipLow) THEN ClipLow
    ELSE IF RLess(ClipHigh, v) THEN ClipHigh
    ELSE v

\* int(x) of a non-negative rational n/d: truncation.
int(n, d) == n \div d

\* PIL's Image.resize refuses a size with a dimension below 1 (ValueError).
ResizeRaises(width, height) == width < 1 \/ height < 1
resize(image, width, height) == [image EXCEPT !.width = width, !.height = height]

\* A variant of scaled that rounds to the nearest integer instead.
scaled_rounding(image, factor) ==
    resize(image,
           (2 * image.width * factor[1] + factor[2]) \div (2 * factor[2]),
           (2 * image.height * factor[1] + factor[2]) \div (2 * factor[2]))

scaled(image, factor) ==
    resize(image,
           int(image.width * factor[1], factor[2]),
           int(image.height * factor[1], factor[2]))

\* image.filter(GaussianBlur(radius)): same size, one more blur in its history.
blurred(image, blur_radius) == [image EXCEPT !.depth = @ + 1]

\* Image.blend(im1, im2, alpha): im1 at alpha 0, im2 at alpha 1, else a mix.
blend(im1, im2, alpha) ==
    IF alpha[1] = 0 THEN im1
    ELSE IF alpha[1] = alpha[2] THEN im2
    ELSE [im1 EXCEPT !.kind = "blend", !.carried = TRUE]

(***************************************************************************)
(* DeepDream.create_inceptions                                             *)
(***************************************************************************)
\* A variant that loops n_inceptions times.
inception_steps_all(n_inceptions) == n_inceptions

\* range(n_inceptions - 1): the number of iterations of line 165.
inception_steps(n_inceptions) == n_inceptions - 1

RECURSIVE inception_loop(_, _, _, _)
inception_loop(incs, remaining, factor, blur_radius) ==
    IF remaining <= 0
    THEN [raised |-> FALSE, inceptions |-> incs]
    ELSE LET b == blurred(incs[Len(incs)], blur_radius)
             s == scaled(b, factor)
         IN  IF ResizeRaises(s.width, s.height)
             THEN [raised |-> TRUE, inceptions |-> incs]
             ELSE inception_loop(Append(incs, s), remaining - 1, factor, blur_radius)

create_inceptions(image, n_inceptions, scale_factor, blur_radius) ==
    inception_loop(<<image>>, inception_steps(n_inceptions), scale_factor, blur_radius)

(***************************************************************************)
(* DeepDream.__call__ and DeepDream.dream_inception                        *)
(***************************************************************************)
InputSizes == {<<1, 1>>, <<3, 2>>, <<256, 256>>, <<512, 512>>}
ScaleFactors == {<<1, 2>>, <<7, 10>>, <<1, 1>>, <<3, 2>>}
BlendFactors == {<<0, 1>>, <<3, 10>>}
BlurRadii == {60}
LearningRates == {<<1, 1>>}
InceptionCounts == -1..MaxInceptions
EpochCounts == 0..MaxEpochs
\* Raw values of the followed pixel, and of its standardized gradient.
PixelValues == {<<0, 1>>, <<1, 1>>}
Gradients == {<<-1, 1>>, <<0, 1>>, <<1, 1>>}

InputImage(size) ==
    [width |-> size[1], height |-> size[2], kind |-> "input", depth |-> 0,
     carried |-> FALSE]

\* A variant that walks the pyramid from the original resolution down.
not_reversed(s) == s

\* inceptions[::-1]
reversed(s) == [k \in 1..Len(s) |-> s[Len(s) - k + 1]]

\* learning_weight = w + 1 (line 206)
learning_weight_of(index) == index + 1

Call(a) ==
    /\ pc = "idle"
    /\ inst["A"] = "ready"
    /\ args' = a
    /\ pc' = "create"
    /\ UNCHANGED <<inceptions, w, dream, scale, target, learning_rate, dargs,
                   epoch, calls, result>>
    /\ UNCHANGED bvars

\* Lines 189-196
CreateInceptions ==
    /\ pc = "create"
    /\ LET r == create_inceptions(args.image, args.n_inceptions,
                                  args.scale_factor, args.blur_radius)
       IN  IF r.raised
           THEN pc' = "raised" /\ UNCHANGED <<inceptions, w, dream>>
           ELSE /\ inceptions' = r.inceptions
                /\ w' = 0
                /\ dream' = NoImage
                /\ pc' = "loop"
    /\ UNCHANGED <<args, scale, target, learning_rate, dargs, epoch, calls, result>>
    /\ UNCHANGED bvars

\* Lines 197-210 and 133: one more inception is taken, the running dream is
\* resized and blended, and dream_inception is entered with its arguments.
StartInception(px) ==
    /\ pc = "loop"
    /\ w < Len(inceptions)
    /\ LET inception == reversed(inceptions)[w + 1]
           resized == resize(dream, inception.width, inception.height)
           da == [image |-> inception, epochs |-> args.epochs,
                  learning_rate |-> args.learning_rate,
                  learning_weight |-> learning_weight_of(w)]
       IN  /\ IF dream # NoImage
              THEN /\ dream' = resized
                   /\ scale' = blend(inception, resized, args.blend_factor)
              ELSE UNCHANGED <<dream, scale>>
           /\ dargs' = da
           /\ target' = preprocess(da.image, Normalize(px))
           /\ learning_rate' = da.learning_rate
           /\ calls' = Append(calls, da)
    /\ epoch' = 0
    /\ pc' = "epoch"
    /\ UNCHANGED <<args, inceptions, w, result>>
    /\ UNCHANGED bvars

\* Lines 135-150: one iteration of the gradient ascent. The loss runs a
\* forward pass of the model; torch.stack raises on an empty feature list.
Epoch(grad) ==
    /\ pc = "epoch"
    /\ epoch < dargs.epochs
    /\ LET f == forward(features["A"], "A",
                        [by |-> "main", n |-> passes["A"] + 1], attached)
           lr == RDiv(learning_rate, dargs.learning_weight)
       IN  /\ features' = [features EXCEPT !["A"] = f]
           /\ passes' = [passes EXCEPT !["A"] = @ + 1]
           /\ IF f = <<>>
              THEN pc' = "raised" /\ UNCHANGED <<target, learning_rate, epoch>>
              ELSE /\ learning_rate' = lr
                   /\ target' = [target EXCEPT
                                   !.value = clip(RAdd(@, RMul(grad, lr)))]
                   /\ epoch' = epoch + 1
                   /\ pc' = "epoch"
    /\ UNCHANGED <<args, inceptions, w, dream, scale, dargs, calls, result>>
    /\ UNCHANGED <<hooks, attached, inst, loi, err, removeCalled>>

\* Lines 151 and 213-214: dream_inception returns; its tensor becomes the dream.
EndInception ==
    /\ pc = "epoch"
    /\ epoch >= dargs.epochs
    /\ dream' = postprocess(target)
    /\ w' = w + 1
    /\ pc' = "loop"
    /\ UNCHANGED <<args, inceptions, scale, target, learning_rate, dargs,
                   epoch, calls, result>>
    /\ UNCHANGED bvars

\* Line 216
Return ==
    /\ pc = "loop"
    /\ w >= Len(inceptions)
    /\ result' = dream
    /\ pc' = "done"
    /\ UNCHANGED <<args, inceptions, w, dream, scale, target, learning_rate,
                   dargs, epoch, calls>>
    /\ UNCHANGED bvars

CallArgs ==
    [epochs : EpochCounts, learning_rate : LearningRates,
     n_inceptions : InceptionCounts, scale_factor : ScaleFactors,
     blend_factor : BlendFactors, blur_radius : BlurRadii,
     image : {InputImage(sz) : sz \in InputSizes}]

EngineLoi == {<<>>, <<Layers[1]>>, <<Layers[2], Layers[1]>>}

InitRun ==
    /\ \E l \in EngineLoi : EngineBuilt(l)
    /\ IdleThreads
    /\ IdleRun

NextRun ==
    \/ \E a \in CallArgs : Call(a) /\ UNCHANGED tvars
    \/ CreateInceptions /\ UNCHANGED tvars
    \/ \E px \in PixelValues : StartInception(px) /\ UNCHANGED tvars
    \/ \E g \in Gradients : Epoch(g) /\ UNCHANGED tvars
    \/ EndInception /\ UNCHANGED tvars
    \/ Return /\ UNCHANGED tvars

SpecRun == InitRun /\ [][NextRun]_vars

(***************************************************************************)
(* Claims about the backbone                                               *)
(***************************************************************************)
LoiSet(i) == SeqRange(loi[i])
OwnHooks(i) == {h \in attached : h.owner = i}

\* C3: after the forward passes of an instance on which remove() was never
\* called, its features hold exactly one entry per monitored layer, all of
\* them from the last pass.
C3_OneEntryPerLayer ==
    \A i \in Instances :
        (inst[i] = "ready" /\ passes[i] > 0 /\ ~removeCalled[i]) =>
            /\ Len(features[i]) = Len(loi[i])
            /\ {e.layer : e \in SeqRange(features[i])} = LoiSet(i)
            /\ \A e \in SeqRange(features[i]) : e.pass = [by |-> "main", n |-> passes[i]]

\* C4: a constructor given a name that is no child of the model (and weights
\* that load) raises KeyError; no instance exists and no forward pass ran.
HasUnknown(l) == \E k \in 1..Len(l) : l[k] \notin LayerSet
C4_UnknownLayerFails ==
    \A i \in Instances :
        (inst[i] # "unbuilt" /\ HasUnknown(loi[i]) /\ err[i] # "LoadError") =>
            /\ inst[i] = "failed"
            /\ err[i] = "KeyError"
            /\ passes[i] = 0
            /\ features[i] = <<>>
C4_Witness ==
    \E i \in Instances :
        /\ err[i] = "KeyError"
        /\ Len(loi[i]) = 2
        /\ \E j \in Instances \ {i} : passes[j] > 0

\* C6: the hooks installed for an instance stay installed whatever is done
\* with the other instances, as long as remove() was not called on it.
C6_OwnHooksKept ==
    \A i \in Instances :
        (inst[i] = "ready" /\ ~removeCalled[i]) =>
            OwnHooks(i) = {Handle(i, n) : n \in LoiSet(i)}

(***************************************************************************)
(* Claims about concurrent calls                                           *)
(***************************************************************************)
\* Thread t computed its last loss from exactly the capture of its own pass.
OwnCapture(t) ==
    /\ Len(tread[t]) = Len(loi["A"])
    /\ {e.layer : e \in SeqRange(tread[t])} = LoiSet("A")
    /\ \A e \in SeqRange(tread[t]) : e.pass = PassOf(t)
HasRead(t) == tpc[t] = "idle" /\ tcalls[t] > 0

\* C8: when the calls are serialized every loss is computed from the capture
\* of its own forward pass; the witness is a concurrent run where one is not.
C8_SerializedIsClean ==
    mode = "serialized" => \A t \in Threads : HasRead(t) => OwnCapture(t)
C8_Witness ==
    /\ mode = "concurrent"
    /\ \E t \in Threads : HasRead(t) /\ ~OwnCapture(t)
\* Both ways of corruption: entries missing, entries of the other pass.
C8_WitnessMissing ==
    /\ mode = "concurrent"
    /\ \E t \in Threads : HasRead(t) /\ Len(tread[t]) < Len(loi["A"])
C8_WitnessForeign ==
    /\ mode = "concurrent"
    /\ \E t \in Threads :
          HasRead(t) /\ \E e \in SeqRange(tread[t]) : e.pass.by # t

(***************************************************************************)
(* Claims about the pyramid and the multi-scale loop                       *)
(***************************************************************************)
\* create_inceptions has returned its list to __call__.
PyramidBuilt == pc \in {"loop", "epoch", "done"}
SameSize(a, b) == a.width = b.width /\ a.height = b.height

\* C1: the image __call__ returns has the width and height of its input.
C1_OutputHasInputSize ==
    pc = "done" => SameSize(result, args.image)

\* C2: at every level after the first, the image dream_inception works on is
\* the blend of the level's image with the resized running dream.
C2_OptimizerGetsBlend ==
    (pc = "epoch" /\ w > 0) => dargs.image = scale

\* C5 as stated: create_inceptions returns exactly n_inceptions images, the
\* first of the size of the input.
C5_ExactlyN ==
    PyramidBuilt =>
        /\ Len(inceptions) = args.n_inceptions
        /\ SameSize(inceptions[1], args.image)
\* C5 amended: exactly n_inceptions images when n_inceptions >= 1, the input
\* alone when n_inceptions <= 0; the first has the size of the input.
C5_NOrOne ==
    PyramidBuilt =>
        /\ args.n_inceptions >= 1 => Len(inceptions) = args.n_inceptions
        /\ args.n_inceptions <= 0 => Len(inceptions) = 1
        /\ SameSize(inceptions[1], args.image)
C5_Witness ==
    /\ PyramidBuilt
    /\ args.n_inceptions = MaxInceptions
    /\ Len(inceptions) = MaxInceptions
    /\ inceptions[1].width = 256

\* C7: with 0 < scale_factor < 1 every element of the pyramid after the first
\* is strictly narrower and strictly lower than its predecessor, each
\* dimension being the predecessor's times scale_factor, truncated.
C7_StrictShrink ==
    (PyramidBuilt /\ 0 < args.scale_factor[1]
                  /\ args.scale_factor[1] < args.scale_factor[2]) =>
        \A k \in 2..Len(inceptions) :
            /\ inceptions[k].width < inceptions[k - 1].width
            /\ inceptions[k].height < inceptions[k - 1].height
            /\ inceptions[k].width =
                  (inceptions[k - 1].width * args.scale_factor[1])
                      \div args.scale_factor[2]
            /\ inceptions[k].height =
                  (inceptions[k - 1].height * args.scale_factor[1])
                      \div args.scale_factor[2]
C7_Witness ==
    /\ PyramidBuilt
    /\ args.scale_factor = <<7, 10>>
    /\ Len(inceptions) = 3
    /\ inceptions[1].width = 256
    /\ inceptions[2].width = 179
    /\ inceptions[3].width = 125

\* C9: every iteration of one dream_inception call steps by
\* learning_rate / learning_weight of its arguments.
C9_SameStepEveryEpoch ==
    (pc = "epoch" /\ epoch >= 1) =>
        REq(learning_rate, RDiv(dargs.learning_rate, dargs.learning_weight))

\* C10: dream_inception is called once per level, the smallest level first
\* and the original last, the call for level i with learning_weight N - i.
C10_OrderAndWeights ==
    PyramidBuilt =>
        /\ Len(calls) <= Len(inceptions)
        /\ pc = "done" => Len(calls) = Len(inceptions)
        /\ \A k \in 1..Len(calls) :
              /\ calls[k].image.depth = Len(inceptions) - k
              /\ SameSize(calls[k].image, inceptions[Len(inceptions) - k + 1])
              /\ calls[k].learning_weight = Len(inceptions) - calls[k].image.depth
C10_Witness ==
    /\ pc = "done"
    /\ Len(inceptions) = 3
    /\ Len(calls) = 3
    /\ calls[1].learning_weight = 1
    /\ calls[3].learning_weight = 3
    /\ calls[3].image.depth = 0

====
